---- MODULE Spec2Model ----
(***************************************************************************)
(* A model of the dns-cookie crate (src/src/lib.rs): construction,         *)
(* encoding, decoding and regeneration of DNS Server and Client cookies.   *)
(*                                                                         *)
(* Representation of the machine integers.  TLC's integers are 32 bits     *)
(* wide, so the wider values of the program are kept as limbs:             *)
(*   - an i64 count of unix seconds is [hi, lo] = hi * 2^16 + lo with      *)
(*     0 <= lo < 2^16 (hi is negative for times before the epoch);         *)
(*   - a u64 is a sequence of four 16-bit limbs, most significant first.   *)
(* An OffsetDateTime is the instant (whole unix seconds and a sub-second   *)
(* part counted in 1/SubTicks of a second) together with its UTC offset.   *)
(***************************************************************************)
EXTENDS Integers, Sequences, FiniteSets, TLC

\* ------------------------------------------------------------------ bounds
\* Sub-second resolution of an OffsetDateTime in the model (ticks per second).
SubTicks == 2
\* Longest list of candidate secrets handed to decode.
MaxSecrets == 2

\* --------------------------------------------------------------- constants
SERVER_COOKIE_LEN == 16
CLIENT_COOKIE_LEN == 8

Limb == 256 * 256
Byte == 0..255

\* ------------------------------------------------------- wide integers (i64)
Wide(hi, lo) == [hi |-> hi, lo |-> lo]

\* w + d for a 32-bit d of either sign.
WideAdd(w, d) ==
    LET t == w.lo + d
    IN  [hi |-> w.hi + (t \div Limb), lo |-> t % Limb]

WideLess(a, b) == a.hi < b.hi \/ (a.hi = b.hi /\ a.lo < b.lo)

WideLeq(a, b) == a = b \/ WideLess(a, b)

\* `x as u32` of an i64: the low 32 bits.
AsU32(w) == [hi |-> w.hi % Limb, lo |-> w.lo]

\* u32::to_be_bytes / u32::from_be_bytes
U32ToBe(w) == <<w.hi \div 256, w.hi % 256, w.lo \div 256, w.lo % 256>>

U32FromBe(b) == Wide(b[1] * 256 + b[2], b[3] * 256 + b[4])

\* u16::to_be_bytes / u16::from_be_bytes
U16ToBe(r) == <<r \div 256, r % 256>>

U16FromBe(b) == b[1] * 256 + b[2]

\* u64::to_be_bytes / u64::from_be_bytes over four 16-bit limbs
U64ToBe(h) ==
    <<h[1] \div 256, h[1] % 256, h[2] \div 256, h[2] % 256,
      h[3] \div 256, h[3] % 256, h[4] \div 256, h[4] % 256>>

U64FromBe(b) ==
    <<b[1] * 256 + b[2], b[3] * 256 + b[4], b[5] * 256 + b[6], b[7] * 256 + b[8]>>

Reverse(s) == [i \in 1..Len(s) |-> s[Len(s) + 1 - i]]

\* ------------------------------------------------------------ time crate
UtcOffsetUTC == 0

Date(unix, sub, offset) == [unix |-> unix, sub |-> sub, offset |-> offset]

\* OffsetDateTime::to_offset: same instant, another offset.
to_offset(t, offset) == [t EXCEPT !.offset = offset]

\* OffsetDateTime::unix_timestamp: whole seconds of the instant.
unix_timestamp(t) == t.unix

\* Ordering and equality of OffsetDateTime compare instants.
DateLess(a, b) ==
    WideLess(a.unix, b.unix) \/ (a.unix = b.unix /\ a.sub < b.sub)

DateEq(a, b) == a.unix = b.unix /\ a.sub = b.sub

\* OffsetDateTime + Duration, OffsetDateTime - Duration (whole seconds).
DateAdd(t, secs) == [t EXCEPT !.unix = WideAdd(@, secs)]

DateSub(t, secs) == [t EXCEPT !.unix = WideAdd(@, 0 - secs)]

\* NumericalDuration: n.hours(), n.minutes() in seconds.
hours(n) == n * 3600

minutes(n) == n * 60

\* Range of OffsetDateTime::from_unix_timestamp: years -9999 ..= 9999,
\* that is -377705116800 ..= 253402300799 seconds.
MinUnixTimestamp == Wide(0 - 5763323, 19328)

MaxUnixTimestamp == Wide(3866612, 16767)

Ok(v) == [ok |-> TRUE, value |-> v]

Err(e) == [ok |-> FALSE, error |-> e]

\* Mutant: a calendar time limited to a signed 32-bit count of seconds.
Mut_from_unix_timestamp_i32(w) ==
    IF WideLeq(Wide(0 - 32768, 0), w) /\ WideLeq(w, Wide(32767, 65535))
    THEN Ok(Date(w, 0, UtcOffsetUTC))
    ELSE Err("ComponentRange")

from_unix_timestamp(w) ==
    IF WideLeq(MinUnixTimestamp, w) /\ WideLeq(w, MaxUnixTimestamp)
    THEN Ok(Date(w, 0, UtcOffsetUTC))
    ELSE Err("ComponentRange")

\* ------------------------------------------------------------------ errors
IncorrectLength(len) == [kind |-> "IncorrectLength", arg |-> len]

TimestampRange(e) == [kind |-> "TimestampRange", arg |-> e]

InvalidHash == [kind |-> "InvalidHash", arg |-> 0]

Expired == [kind |-> "Expired", arg |-> 0]

TimeTravellor == [kind |-> "TimeTravellor", arg |-> 0]

UnknownVersion(v) == [kind |-> "UnknownVersion", arg |-> v]

UnknownAlgorithm(v) == [kind |-> "UnknownAlgorithm", arg |-> v]

UnsupportedAlgorithm(name) == [kind |-> "UnsupportedAlgorithm", arg |-> name]

\* ------------------------------------------------------ Version, Algorithm
VersionAsU8(v) == CASE v = "One" -> 1

AlgorithmAsU8(a) == CASE a = "SipHash24" -> 4

Version_try_from(version) ==
    IF VersionAsU8("One") = version
    THEN Ok("One")
    ELSE Err(UnknownVersion(version))

\* Mutant: the reserved codepoints 1..3 are not told from unknown ones.
Mut_algorithm_reserved_unknown(algorithm) ==
    IF AlgorithmAsU8("SipHash24") = algorithm THEN Ok("SipHash24")
    ELSE Err(UnknownAlgorithm(algorithm))

Algorithm_try_from(algorithm) ==
    IF AlgorithmAsU8("SipHash24") = algorithm THEN Ok("SipHash24")
    ELSE IF algorithm = 1 THEN Err(UnsupportedAlgorithm("FNV"))
    ELSE IF algorithm = 2 THEN Err(UnsupportedAlgorithm("HMAC-SHA-256-64"))
    ELSE IF algorithm = 3 THEN Err(UnsupportedAlgorithm("AES"))
    ELSE Err(UnknownAlgorithm(algorithm))

\* ------------------------------------------------------------------- state
VARIABLES
    target_endian,  \* byte order of the build target: "little" or "big"
    cookie,         \* the Server cookie the caller holds, or NoCookie
    origin,         \* how `cookie` was produced (operation and its arguments)
    wire,           \* the server-cookie bytes in flight, or NoWire
    sent,           \* the cookie `wire` is the encoding of, or NoCookie
    result,         \* outcome of the last Server::decode, with its arguments
    parsed,         \* outcome of the last Version / Algorithm parse
    client,         \* the Client cookie the caller holds, with its arguments
    cwire,          \* the client-cookie bytes in flight
    cresult         \* outcome of the last Client::decode, with its arguments

vars == <<target_endian, cookie, origin, wire, sent, result, parsed,
          client, cwire, cresult>>

\* --------------------------------------------------- core::hash::Hasher
\* SipHasher24 is an external crate.  The model keeps its interface: the
\* hasher accumulates the bytes written, and finish() compresses them to a
\* u64.  The SipHash-2-4 rounds are stood in for by four polynomial limbs.
SipHasher24_new == <<>>

write(hasher, bytes) == hasher \o bytes

write_u8(hasher, i) == write(hasher, <<i>>)

\* Hasher::write_u16 and write_u32 write the integer's bytes in the byte
\* order of the build target (to_ne_bytes).
to_ne_bytes(be) == IF target_endian = "big" THEN be ELSE Reverse(be)

write_u16(hasher, i) == write(hasher, to_ne_bytes(U16ToBe(i)))

write_u32(hasher, i) == write(hasher, to_ne_bytes(U32ToBe(i)))

Multipliers == <<31, 257, 4099, 28657>>

RECURSIVE Compress(_, _)
Compress(h, msg) ==
    IF msg = <<>> THEN h
    ELSE Compress([i \in 1..4 |-> (h[i] * Multipliers[i] + Head(msg) + 1) % 65521],
                  Tail(msg))

finish(hasher) == Compress(<<1, 2, 3, 4>>, hasher)

\* -------------------------------------------------------------------- Data
Data(version, algorithm, reserved, time, client_cookie) ==
    [version |-> version, algorithm |-> algorithm, reserved |-> reserved,
     time |-> time, client_cookie |-> client_cookie]

\* The bytes Data::hash feeds to the hasher, in order.
Data_hash_input(data, server_secret) ==
    LET h0 == SipHasher24_new
        h1 == write(h0, data.client_cookie)
        h2 == write_u8(h1, VersionAsU8(data.version))
        h3 == write_u8(h2, AlgorithmAsU8(data.algorithm))
        h4 == write_u16(h3, data.reserved)
        h5 == write_u32(h4, AsU32(unix_timestamp(data.time)))
    IN  write(h5, server_secret)

Data_hash(data, server_secret) == finish(Data_hash_input(data, server_secret))

\* ------------------------------------------------------------------ Server
Server(data, hash) == [data |-> data, hash |-> hash]

Server_new(version, algorithm, reserved, time, client_cookie, server_secret) ==
    LET data == Data(version, algorithm, reserved,
                     to_offset(time, UtcOffsetUTC), client_cookie)
    IN  Server(data, Data_hash(data, server_secret))

\* Mutant: a cookie exactly 30 minutes old is not regenerated.
Mut_regenerate_after_30(self, time0, server_secret) ==
    LET time == to_offset(time0, UtcOffsetUTC)
    IN  IF ~DateLess(self.data.time, DateSub(time, minutes(30)))
        THEN self
        ELSE LET data == [self.data EXCEPT !.time = time]
             IN  Server(data, Data_hash(data, server_secret))

\* Mutant: the timestamp is replaced but the tag is not recomputed.
Mut_regenerate_keep_hash(self, time0, server_secret) ==
    LET time == to_offset(time0, UtcOffsetUTC)
    IN  IF DateLess(DateSub(time, minutes(30)), self.data.time)
        THEN self
        ELSE Server([self.data EXCEPT !.time = time], self.hash)

Server_regenerate(self, time0, server_secret) ==
    LET time == to_offset(time0, UtcOffsetUTC)
    IN  IF DateLess(DateSub(time, minutes(30)), self.data.time)
        THEN self
        ELSE LET data == [self.data EXCEPT !.time = time]
             IN  Server(data, Data_hash(data, server_secret))

Server_encode(self) ==
    LET reserved == U16ToBe(self.data.reserved)
        timestamp == U32ToBe(AsU32(unix_timestamp(self.data.time)))
        hash == U64ToBe(self.hash)
    IN  <<VersionAsU8(self.data.version), AlgorithmAsU8(self.data.algorithm)>>
        \o reserved \o timestamp \o hash

\* Mutant: only the first candidate secret is tried.
Mut_try_first_secret_only(version, algorithm, reserved, time, client_cookie, hash, server_secrets, tried) ==
    IF server_secrets = <<>>
    THEN [out |-> Err(InvalidHash), hashed |-> tried]
    ELSE LET c == Server_new(version, algorithm, reserved, time,
                             client_cookie, Head(server_secrets))
         IN  IF c.hash = hash
             THEN [out |-> Ok(c), hashed |-> tried + 1]
             ELSE [out |-> Err(InvalidHash), hashed |-> tried + 1]

\* The loop over the candidate secrets: [out, hashed], where hashed counts
\* the keyed-hash computations made (one per secret tried).
RECURSIVE Server_try_secrets(_, _, _, _, _, _, _, _)
Server_try_secrets(version, algorithm, reserved, time, client_cookie, hash, server_secrets, tried) ==
    IF server_secrets = <<>>
    THEN [out |-> Err(InvalidHash), hashed |-> tried]
    ELSE LET c == Server_new(version, algorithm, reserved, time,
                             client_cookie, Head(server_secrets))
         IN  IF c.hash = hash
             THEN [out |-> Ok(c), hashed |-> tried + 1]
             ELSE Server_try_secrets(version, algorithm, reserved, time,
                                     client_cookie, hash,
                                     Tail(server_secrets), tried + 1)

Unhashed(e) == [out |-> Err(e), hashed |-> 0]

\* The timestamp field of the wire bytes as a calendar time.
Server_decode_time(server_cookie) ==
    LET timestamp == U32FromBe(SubSeq(server_cookie, 5, 8))
        time == from_unix_timestamp(timestamp)
    IN  IF time.ok THEN time ELSE Err(TimestampRange(time.error))

\* Mutant: the bounds of the freshness window are inclusive.
Mut_freshness_inclusive(time, now) ==
    IF ~DateLess(DateSub(now, hours(1)), time) THEN Err(Expired)
    ELSE IF ~DateLess(time, DateAdd(now, minutes(5))) THEN Err(TimeTravellor)
    ELSE Ok("Fresh")

\* The freshness check of decode: the error it returns, or "Fresh".
Server_decode_freshness(time, now) ==
    IF DateLess(time, DateSub(now, hours(1))) THEN Err(Expired)
    ELSE IF DateLess(DateAdd(now, minutes(5)), time) THEN Err(TimeTravellor)
    ELSE Ok("Fresh")

\* Mutant: the tag is verified before the freshness check.
Mut_decode_tag_first(now0, client_cookie, server_cookie, server_secrets) ==
    LET now == to_offset(now0, UtcOffsetUTC)
        cookie_len == Len(server_cookie)
    IN
    IF cookie_len # SERVER_COOKIE_LEN THEN Unhashed(IncorrectLength(cookie_len))
    ELSE
    LET version == Version_try_from(server_cookie[1]) IN
    IF ~version.ok THEN Unhashed(version.error)
    ELSE
    LET algorithm == Algorithm_try_from(server_cookie[2]) IN
    IF ~algorithm.ok THEN Unhashed(algorithm.error)
    ELSE
    LET reserved == U16FromBe(SubSeq(server_cookie, 3, 4))
        time == Server_decode_time(server_cookie)
    IN
    IF ~time.ok THEN Unhashed(time.error)
    ELSE
    LET hash == U64FromBe(SubSeq(server_cookie, 9, 16))
        r == Server_try_secrets(version.value, algorithm.value, reserved,
                                time.value, client_cookie, hash,
                                server_secrets, 0)
        fresh == Server_decode_freshness(time.value, now)
    IN  IF ~r.out.ok THEN r
        ELSE IF ~fresh.ok THEN [out |-> fresh, hashed |-> r.hashed]
        ELSE r

Server_decode(now0, client_cookie, server_cookie, server_secrets) ==
    LET now == to_offset(now0, UtcOffsetUTC)
        cookie_len == Len(server_cookie)
    IN
    IF cookie_len # SERVER_COOKIE_LEN THEN Unhashed(IncorrectLength(cookie_len))
    ELSE
    LET version == Version_try_from(server_cookie[1]) IN
    IF ~version.ok THEN Unhashed(version.error)
    ELSE
    LET algorithm == Algorithm_try_from(server_cookie[2]) IN
    IF ~algorithm.ok THEN Unhashed(algorithm.error)
    ELSE
    LET reserved == U16FromBe(SubSeq(server_cookie, 3, 4))
        time == Server_decode_time(server_cookie)
    IN
    IF ~time.ok THEN Unhashed(time.error)
    ELSE
    LET fresh == Server_decode_freshness(time.value, now) IN
    IF ~fresh.ok THEN Unhashed(fresh.error)
    ELSE
    LET hash == U64FromBe(SubSeq(server_cookie, 9, 16))
    IN  Server_try_secrets(version.value, algorithm.value, reserved, time.value,
                           client_cookie, hash, server_secrets, 0)

\* ------------------------------------------------------------------ Client
IpV4(octets) == [kind |-> "V4", octets |-> octets]

IpV6(octets) == [kind |-> "V6", octets |-> octets]

Client(hash) == [hash |-> hash]

\* The bytes Client::new feeds to the hasher, in order.
Client_hash_input(version, algorithm, client_ip, server_ip, client_secret) ==
    LET h0 == SipHasher24_new
        h1 == write(h0, client_ip.octets)
        h2 == write(h1, server_ip.octets)
    IN  write(h2, client_secret)

Client_new(version, algorithm, client_ip, server_ip, client_secret) ==
    Client(finish(Client_hash_input(version, algorithm, client_ip, server_ip,
                                    client_secret)))

RECURSIVE Client_try_secrets(_, _, _, _, _, _, _)
Client_try_secrets(version, algorithm, client_ip, server_ip, hash, client_secrets, tried) ==
    IF client_secrets = <<>>
    THEN [out |-> Err(InvalidHash), hashed |-> tried]
    ELSE LET c == Client_new(version, algorithm, client_ip, server_ip,
                             Head(client_secrets))
         IN  IF c.hash = hash
             THEN [out |-> Ok(c), hashed |-> tried + 1]
             ELSE Client_try_secrets(version, algorithm, client_ip, server_ip,
                                     hash, Tail(client_secrets), tried + 1)

\* Mutant: the wire bytes are read as a little-endian tag.
Mut_client_decode_le(version, algorithm, client_ip, server_ip, client_cookie, client_secrets) ==
    LET hash == U64FromBe(Reverse(client_cookie))
    IN  Client_try_secrets(version, algorithm, client_ip, server_ip, hash,
                           client_secrets, 0)

Client_decode(version, algorithm, client_ip, server_ip, client_cookie, client_secrets) ==
    LET hash == U64FromBe(client_cookie)
    IN  Client_try_secrets(version, algorithm, client_ip, server_ip, hash,
                           client_secrets, 0)

Client_encode(self) == U64ToBe(self.hash)

\* ------------------------------------------------------------ input sets
Versions == {"One"}

Algorithms == {"SipHash24"}

Reserveds == {0, 1}

ClientCookies ==
    { [i \in 1..CLIENT_COOKIE_LEN |-> 1], [i \in 1..CLIENT_COOKIE_LEN |-> i] }

\* "s1" and "s2"
Secrets == {<<115, 49>>, <<115, 50>>}

SecretLists == UNION {[1..n -> Secrets] : n \in 0..MaxSecrets}

\* 2023-01-01T00:00:00Z = 1672531200
T0 == Wide(25520, 52480)

\* 2^32 + 5: the first seconds past the 32-bit wire range
PastU32 == Wide(Limb, 5)

Half == SubTicks - 1

At(base, delta, sub) == Date(WideAdd(base, delta), sub, UtcOffsetUTC)

\* Times a cookie is constructed at.
Times ==
    { At(T0, 0, 0), At(T0, 0, Half), to_offset(At(T0, 0, 0), hours(1)),
      At(PastU32, 0 - minutes(30), 0), At(PastU32, 0, 0) }

\* Times a cookie is decoded at.
Nows ==
    { At(T0, d, 0) : d \in {0 - 301, 0 - 300, 0, 3600, 3601} }
    \cup { At(T0, 3600, Half), At(T0, 0 - 301, Half),
           to_offset(At(T0, 3600, 0), hours(1)), At(PastU32, 0, 0) }

\* Bytes a peer may send that no cookie of the caller encodes to.
Wire16(version, algorithm, timestamp) ==
    <<version, algorithm, 0, 1>> \o timestamp \o <<0, 0, 0, 0, 0, 0, 0, 0>>

ForeignTimestamps ==
    { U32ToBe(T0), <<0, 0, 0, 0>>, <<128, 0, 0, 0>>, <<255, 255, 255, 255>> }

ForeignWires ==
    { Wire16(v, a, t) : v \in {1, 2}, a \in 0..5, t \in ForeignTimestamps }
    \cup { <<>>, SubSeq(Wire16(1, 4, U32ToBe(T0)), 1, 15),
           SubSeq(Wire16(9, 9, <<255, 255, 255, 255>>), 1, 15),
           Wire16(1, 4, U32ToBe(T0)) \o <<0>> }

\* ------------------------------------------------------------ state values
NoCookie == [kind |-> "none"]

NoOrigin == [op |-> "none"]

NoWire == [kind |-> "none"]

NoResult == [kind |-> "none"]

Init ==
    /\ target_endian \in {"little", "big"}
    /\ cookie = NoCookie
    /\ origin = NoOrigin
    /\ wire = NoWire
    /\ sent = NoCookie
    /\ result = NoResult
    /\ parsed = NoResult
    /\ client = NoCookie
    /\ cwire = NoWire
    /\ cresult = NoResult

ServerVars == <<cookie, origin, wire, sent, result>>

ClientVars == <<client, cwire, cresult>>

\* ----------------------------------------------------------------- actions
\* The caller holds no cookie and no bytes are in flight.
Idle == cookie = NoCookie /\ wire = NoWire /\ result = NoResult

\* Cookies are call-scoped values: the caller drops what it holds.
Discard ==
    /\ ~Idle
    /\ cookie' = NoCookie
    /\ origin' = NoOrigin
    /\ wire' = NoWire
    /\ sent' = NoCookie
    /\ result' = NoResult
    /\ UNCHANGED <<target_endian, parsed, ClientVars>>

\* Server::new with a time of T.
New(T) ==
    \E version \in Versions, algorithm \in Algorithms, reserved \in Reserveds,
       time \in T, client_cookie \in ClientCookies, server_secret \in Secrets :
        /\ Idle
        /\ cookie' = Server_new(version, algorithm, reserved, time,
                                client_cookie, server_secret)
        /\ origin' = [op |-> "new", time |-> time, secret |-> server_secret]
        /\ wire' = NoWire
        /\ sent' = NoCookie
        /\ result' = NoResult
        /\ UNCHANGED <<target_endian, parsed, ClientVars>>

\* Server::encode of the cookie held; the bytes go to the peer.
Encode ==
    /\ \/ origin.op = "new"
       \/ origin.op = "regenerate" /\ origin.prior.op = "new"
    /\ wire' = [bytes |-> Server_encode(cookie)]
    /\ sent' = [cookie |-> cookie, origin |-> origin]
    /\ cookie' = NoCookie
    /\ origin' = NoOrigin
    /\ result' = NoResult
    /\ UNCHANGED <<target_endian, parsed, ClientVars>>

\* The peer sends bytes that are no encoding of a cookie of the caller.
Receive ==
    \E bytes \in ForeignWires :
        /\ Idle
        /\ wire' = [bytes |-> bytes]
        /\ sent' = NoCookie
        /\ cookie' = NoCookie
        /\ origin' = NoOrigin
        /\ result' = NoResult
        /\ UNCHANGED <<target_endian, parsed, ClientVars>>

\* Server::decode of the bytes in flight at a time of N; a cookie it
\* returns is the cookie the caller holds from then on.
Decode(N) ==
    /\ wire # NoWire
    /\ \E now \in N, client_cookie \in ClientCookies, server_secrets \in SecretLists :
        LET r == Server_decode(now, client_cookie, wire.bytes, server_secrets)
        IN  /\ result' = [now |-> now, client_cookie |-> client_cookie,
                          secrets |-> server_secrets, bytes |-> wire.bytes,
                          sent |-> sent, out |-> r.out, hashed |-> r.hashed]
            /\ cookie' = IF r.out.ok THEN r.out.value ELSE NoCookie
            /\ origin' = IF r.out.ok
                         THEN [op |-> "decode", now |-> now,
                               client_cookie |-> client_cookie,
                               secrets |-> server_secrets, sent |-> sent]
                         ELSE NoOrigin
    /\ wire' = NoWire
    /\ sent' = NoCookie
    /\ UNCHANGED <<target_endian, parsed, ClientVars>>

\* Server::regenerate of the cookie held, at a time of T: a cookie made by
\* Server::new, or one Server::decode returned for bytes of such a cookie.
Regenerate(T) ==
    /\ \/ origin.op = "new"
       \/ origin.op = "decode" /\ origin.sent # NoCookie
    /\ \E time \in T, server_secret \in Secrets :
        /\ cookie' = Server_regenerate(cookie, time, server_secret)
        /\ origin' = [op |-> "regenerate", time |-> time,
                      secret |-> server_secret, before |-> cookie,
                      prior |-> origin]
    /\ result' = NoResult
    /\ UNCHANGED <<wire, sent, target_endian, parsed, ClientVars>>

\* Version::try_from and Algorithm::try_from of a wire byte.
ParseVersion ==
    \E b \in Byte :
        /\ parsed' = [what |-> "Version", byte |-> b, out |-> Version_try_from(b)]
        /\ UNCHANGED <<target_endian, ServerVars, ClientVars>>

ParseAlgorithm ==
    \E b \in Byte :
        /\ parsed' = [what |-> "Algorithm", byte |-> b, out |-> Algorithm_try_from(b)]
        /\ UNCHANGED <<target_endian, ServerVars, ClientVars>>

Ips ==
    { IpV4(<<192, 0, 2, 1>>), IpV4(<<192, 0, 2, 53>>),
      IpV6(<<32, 1, 13, 184, 0, 0, 0, 0, 0, 0, 0, 0, 0, 0, 0, 1>>) }

ForeignClientWires ==
    { [i \in 1..CLIENT_COOKIE_LEN |-> 0], [i \in 1..CLIENT_COOKIE_LEN |-> 255] }

ClientIdle == client = NoCookie /\ cwire = NoWire /\ cresult = NoResult

\* Client::new
ClientNew ==
    \E version \in Versions, algorithm \in Algorithms, client_ip \in Ips,
       server_ip \in Ips, client_secret \in Secrets :
        /\ ClientIdle
        /\ client' = [cookie |-> Client_new(version, algorithm, client_ip,
                                            server_ip, client_secret),
                      client_ip |-> client_ip, server_ip |-> server_ip,
                      secret |-> client_secret]
        /\ UNCHANGED <<cwire, cresult, target_endian, parsed, ServerVars>>

\* Client::encode of the cookie held; the bytes go to the peer.
ClientEncode ==
    /\ client # NoCookie
    /\ cwire' = [bytes |-> Client_encode(client.cookie), sent |-> client]
    /\ client' = NoCookie
    /\ UNCHANGED <<cresult, target_endian, parsed, ServerVars>>

\* The peer sends 8 bytes that are no encoding of a cookie of the caller.
ClientReceive ==
    \E bytes \in ForeignClientWires :
        /\ ClientIdle
        /\ cwire' = [bytes |-> bytes, sent |-> NoCookie]
        /\ UNCHANGED <<client, cresult, target_endian, parsed, ServerVars>>

\* Client::decode of the bytes in flight.
ClientDecode ==
    /\ cwire # NoWire
    /\ \E version \in Versions, algorithm \in Algorithms, client_ip \in Ips,
          server_ip \in Ips, client_secrets \in SecretLists :
        LET r == Client_decode(version, algorithm, client_ip, server_ip,
                               cwire.bytes, client_secrets)
        IN  cresult' = [client_ip |-> client_ip, server_ip |-> server_ip,
                        secrets |-> client_secrets, bytes |-> cwire.bytes,
                        sent |-> cwire.sent, out |-> r.out, hashed |-> r.hashed]
    /\ cwire' = NoWire
    /\ UNCHANGED <<client, target_endian, parsed, ServerVars>>

ClientDiscard ==
    /\ ~ClientIdle
    /\ client' = NoCookie
    /\ cwire' = NoWire
    /\ cresult' = NoResult
    /\ UNCHANGED <<target_endian, parsed, ServerVars>>

ServerNew == New(Times)

ServerDecode == Decode(Nows)

Next == ServerNew \/ Encode \/ Receive \/ ServerDecode \/ Discard

Spec == Init /\ [][Next]_vars

\* Times of the regeneration scenarios: construction, regeneration, decode.
RegenTimes ==
    { At(T0, 0, 0), At(T0, 1799, 0), At(T0, 1799, Half), At(T0, 1800, 0),
      At(PastU32, 0 - minutes(30), 0), At(PastU32, 0, 0) }

\* 1886-11-25: T0 + 30 minutes less 2^32 seconds
PreEpoch == At(Wide(25520 - Limb, 52480), 1800, 0)

RegenNew == New(RegenTimes \cup {PreEpoch})

RegenRegenerate == Regenerate(RegenTimes)

RegenDecode == Decode(RegenTimes)

NextRegen == RegenNew \/ RegenRegenerate \/ Encode \/ RegenDecode \/ Discard

SpecRegen == Init /\ [][NextRegen]_vars

\* Times of the secret-rotation scenarios.
RotationTimes ==
    { At(T0, 0, 0), At(T0, 1799, 0), At(T0, 1800, 0), At(T0, 1800, Half),
      At(PastU32, 0 - minutes(30), 0), At(PastU32, 0, 0) }

RotationNew == New(RotationTimes)

RotationRegenerate == Regenerate(RotationTimes)

RotationDecode == Decode(RotationTimes)

NextRotation ==
    RotationNew \/ RotationRegenerate \/ Encode \/ RotationDecode \/ Discard

SpecRotation == Init /\ [][NextRotation]_vars

NextParse == ParseVersion \/ ParseAlgorithm

SpecParse == Init /\ [][NextParse]_vars

NextClient == ClientNew \/ ClientEncode \/ ClientReceive \/ ClientDecode \/ ClientDiscard

SpecClient == Init /\ [][NextClient]_vars

\* ------------------------------------------------- vocabulary of the claims
Decoded == result # NoResult

\* The wire bytes decoded last pass the length, version and algorithm checks.
WellFormed == Len(result.bytes) = 16 /\ result.bytes[1] = 1 /\ result.bytes[2] = 4

\* The timestamp field of the wire bytes decoded last, as an instant.
WireTime ==
    Date(Wide(result.bytes[5] * 256 + result.bytes[6],
              result.bytes[7] * 256 + result.bytes[8]), 0, 0)

WireReserved == result.bytes[3] * 256 + result.bytes[4]

\* Instant a is s whole seconds before instant b, or earlier / later.
Before(a, b, s) == DateLess(a, DateSub(b, s))

After(a, b, s) == DateLess(DateAdd(b, s), a)

WireFresh == ~Before(WireTime, result.now, 3600) /\ ~After(WireTime, result.now, 300)

\* The bytes decoded last are the encoding of a cookie made by Server::new.
DecodedNew == Decoded /\ result.sent # NoCookie /\ result.sent.origin.op = "new"

FailedWith(kind) == ~result.out.ok /\ result.out.error.kind = kind

\* C1: Server round trip.  Decoding the encoding of Server::new(.., T, cc, S)
\* at a time `now` that has T inside the freshness window, with the same
\* client cookie and the candidates [S], returns Ok with a value equal to
\* the cookie constructed.
C1_RoundTrip ==
    ( /\ DecodedNew
      /\ result.client_cookie = result.sent.cookie.data.client_cookie
      /\ result.secrets = <<result.sent.origin.secret>>
      /\ ~Before(result.sent.origin.time, result.now, 3600)
      /\ ~After(result.sent.origin.time, result.now, 300) )
    => result.out = Ok(result.sent.cookie)

\* C2: freshness window of Server::decode.  For well-formed bytes with wire
\* timestamp T: Expired exactly when T < now - 1h, TimeTravellor exactly when
\* T > now + 5m, otherwise tag verification decides (Ok or InvalidHash); the
\* bounds are exclusive.
C2_FreshnessWindow ==
    (Decoded /\ WellFormed) =>
        /\ FailedWith("Expired") <=> Before(WireTime, result.now, 3600)
        /\ FailedWith("TimeTravellor") <=> After(WireTime, result.now, 300)
        /\ WireFresh => (result.out.ok \/ FailedWith("InvalidHash"))
        /\ DateEq(result.now, DateAdd(WireTime, 3600)) => ~FailedWith("Expired")
        /\ DateEq(result.now, DateAdd(WireTime, 3601)) => FailedWith("Expired")
        /\ DateEq(result.now, DateSub(WireTime, 300)) => ~FailedWith("TimeTravellor")
        /\ DateEq(result.now, DateSub(WireTime, 301)) => FailedWith("TimeTravellor")

\* A cookie decoded successfully exactly one hour after its timestamp.
C2_Witness ==
    /\ Decoded /\ WellFormed
    /\ DateEq(result.now, DateAdd(WireTime, 3600))
    /\ result.out.ok

\* The candidate secrets whose recomputed tag equals the tag on the wire.
Matching ==
    { i \in 1..Len(result.secrets) :
        Data_hash(Data("One", "SipHash24", WireReserved, WireTime,
                       result.client_cookie), result.secrets[i])
        = U64FromBe(SubSeq(result.bytes, 9, 16)) }

\* C3: secret rotation.  The candidates are tried in the given order and the
\* first whose tag matches yields the cookie returned; no match (also: no
\* candidate) gives InvalidHash.  A fresh cookie signed with S1 decodes with
\* S1 anywhere among the candidates and fails with InvalidHash without it.
C3_SecretRotation ==
    (Decoded /\ WellFormed /\ WireFresh) =>
        /\ result.out.ok <=> Matching # {}
        /\ result.out.ok =>
              /\ result.hashed \in Matching
              /\ \A i \in Matching : result.hashed <= i
              /\ result.out.value =
                    Server_new("One", "SipHash24", WireReserved, WireTime,
                               result.client_cookie, result.secrets[result.hashed])
        /\ Matching = {} =>
              FailedWith("InvalidHash") /\ result.hashed = Len(result.secrets)
        /\ ( /\ result.sent # NoCookie
             /\ result.sent.origin.op = "new"
             /\ result.client_cookie = result.sent.cookie.data.client_cookie )
           => ( result.out.ok <=>
                  \E i \in 1..Len(result.secrets) :
                      result.secrets[i] = result.sent.origin.secret )

\* A cookie accepted under the second of two different candidates.
C3_Witness ==
    /\ DecodedNew /\ WireFresh
    /\ Len(result.secrets) = 2
    /\ result.secrets[1] # result.secrets[2]
    /\ result.secrets[2] = result.sent.origin.secret
    /\ result.out.ok
    /\ result.hashed = 2

\* C5: check order of Server::decode.  The error is that of the first
\* failing check in the order length, version, algorithm, timestamp range,
\* freshness, tag; no keyed hash is computed unless all checks before the
\* tag verification pass.
C5_CheckOrder ==
    Decoded =>
        /\ Len(result.bytes) # 16 =>
              result.out = Err(IncorrectLength(Len(result.bytes)))
        /\ (Len(result.bytes) = 16 /\ result.bytes[1] # 1) =>
              result.out = Err(UnknownVersion(result.bytes[1]))
        /\ (Len(result.bytes) = 16 /\ result.bytes[1] = 1 /\ result.bytes[2] # 4) =>
              (FailedWith("UnsupportedAlgorithm") \/ FailedWith("UnknownAlgorithm"))
        /\ (WellFormed /\ ~WireFresh) =>
              (FailedWith("Expired") \/ FailedWith("TimeTravellor"))
        /\ (result.out.ok \/ FailedWith("InvalidHash")) => (WellFormed /\ WireFresh)
        /\ ~(WellFormed /\ WireFresh) => result.hashed = 0

\* Bytes that fail the version, the algorithm and the freshness check at
\* once, decoded with candidates at hand: the version error is returned.
C5_Witness ==
    /\ Decoded
    /\ Len(result.bytes) = 16 /\ result.bytes[1] # 1 /\ result.bytes[2] # 4
    /\ ~WireFresh
    /\ result.secrets # <<>>
    /\ FailedWith("UnknownVersion")

\* C6: the Server cookie tag is the keyed hash of the client cookie, the
\* version byte, the algorithm byte, the reserved field as 2 big-endian
\* bytes, the timestamp truncated to 32 bits as 4 big-endian bytes, then
\* the secret.
C6_HashInput ==
    (cookie # NoCookie /\ origin.op = "new") =>
        cookie.hash =
            finish(cookie.data.client_cookie
                   \o <<1, 4>>
                   \o U16ToBe(cookie.data.reserved)
                   \o U32ToBe(AsU32(cookie.data.time.unix))
                   \o origin.secret)

\* C10: every value of the 4-byte wire timestamp is a calendar time:
\* Server::decode never returns TimestampRange, and 16 bytes end in Ok or
\* one of UnknownVersion, UnknownAlgorithm, UnsupportedAlgorithm, Expired,
\* TimeTravellor, InvalidHash.
C10_TimestampRepresentable ==
    Decoded =>
        /\ ~FailedWith("TimestampRange")
        /\ Len(result.bytes) = 16 =>
              \/ result.out.ok
              \/ result.out.error.kind \in
                    {"UnknownVersion", "UnknownAlgorithm", "UnsupportedAlgorithm",
                     "Expired", "TimeTravellor", "InvalidHash"}

\* The largest wire timestamp, 2^32 - 1, passes the range and freshness
\* checks and reaches tag verification.
C10_Witness ==
    /\ Decoded /\ WellFormed
    /\ SubSeq(result.bytes, 5, 8) = <<255, 255, 255, 255>>
    /\ result.hashed > 0
    /\ FailedWith("InvalidHash")

\* ------------------------------------------------------------ regeneration
\* The caller holds the cookie Server::regenerate returned.
Regenerated == cookie # NoCookie /\ origin.op = "regenerate"

\* t2 - T0 < 30 minutes
GapUnder30(T0time, t2) == DateLess(t2, DateAdd(T0time, 1800))

\* The unix seconds of t fit the 32-bit wire timestamp.
InU32(t) == 0 <= t.unix.hi /\ t.unix.hi < Limb

\* The bytes decoded last encode a cookie that Server::regenerate re-signed
\* at t2 with `secret`, and are decoded at t2 with [secret] and the cookie's
\* client cookie.
DecodedRegenerated ==
    /\ Decoded /\ result.sent # NoCookie
    /\ result.sent.origin.op = "regenerate"
    /\ ~GapUnder30(result.sent.origin.before.data.time, result.sent.origin.time)
    /\ result.now = result.sent.origin.time
    /\ result.secrets = <<result.sent.origin.secret>>
    /\ result.client_cookie = result.sent.cookie.data.client_cookie

\* What regenerate returns, whatever the times: the cookie unchanged under
\* 30 minutes, else the same fields with timestamp t2 and the tag recomputed.
RegenerateShape ==
    Regenerated =>
        LET b == origin.before
            t2 == origin.time
        IN  IF GapUnder30(b.data.time, t2)
            THEN cookie = b /\ Server_encode(cookie) = Server_encode(b)
            ELSE /\ cookie.data = [b.data EXCEPT !.time = to_offset(t2, 0)]
                 /\ cookie.hash = Data_hash(cookie.data, origin.secret)
                 /\ ~DateEq(cookie.data.time, b.data.time)

RegeneratedAccepted ==
    /\ Regenerated
    /\ origin.prior.op = "decode"
    /\ Len(origin.prior.secrets) = 2
    /\ origin.time = origin.prior.now
    /\ origin.secret = origin.prior.secrets[1]

\* Server::decode at t, with [current], of the encoding of the cookie held.
RedecodedWithCurrent ==
    Server_decode(origin.time, origin.prior.client_cookie,
                  Server_encode(cookie), <<origin.secret>>).out

C7_TagParsing ==
    parsed # NoResult =>
        /\ parsed.what = "Algorithm" =>
              parsed.out =
                 CASE parsed.byte = 4 -> [ok |-> TRUE, value |-> "SipHash24"]
                   [] parsed.byte = 1 ->
                        [ok |-> FALSE,
                         error |-> [kind |-> "UnsupportedAlgorithm", arg |-> "FNV"]]
                   [] parsed.byte = 2 ->
                        [ok |-> FALSE,
                         error |-> [kind |-> "UnsupportedAlgorithm",
                                    arg |-> "HMAC-SHA-256-64"]]
                   [] parsed.byte = 3 ->
                        [ok |-> FALSE,
                         error |-> [kind |-> "UnsupportedAlgorithm", arg |-> "AES"]]
                   [] OTHER ->
                        [ok |-> FALSE,
                         error |-> [kind |-> "UnknownAlgorithm", arg |-> parsed.byte]]
        /\ parsed.what = "Version" =>
              parsed.out =
                 IF parsed.byte = 1
                 THEN [ok |-> TRUE, value |-> "One"]
                 ELSE [ok |-> FALSE,
                       error |-> [kind |-> "UnknownVersion", arg |-> parsed.byte]]

\* Byte 3 parsed as an algorithm: recognised by name, not supported.
C7_Witness ==
    /\ parsed # NoResult
    /\ parsed.what = "Algorithm" /\ parsed.byte = 3
    /\ ~parsed.out.ok
    /\ parsed.out.error.arg = "AES"

\* ------------------------------------------------------------------ client
\* The tag the 8 client-cookie bytes decoded last carry, big-endian.
ClientWireTag ==
    [i \in 1..4 |-> cresult.bytes[2 * i - 1] * 256 + cresult.bytes[2 * i]]

\* The candidate secrets whose tag over (client IP, server IP, secret) is
\* the tag on the wire.
ClientMatching ==
    { i \in 1..Len(cresult.secrets) :
        finish(cresult.client_ip.octets \o cresult.server_ip.octets
               \o cresult.secrets[i]) = ClientWireTag }

\* C8: Client::decode reads the 8 bytes as a big-endian tag, tries the
\* candidates in order and returns the cookie recomputed with the first that
\* matches, else InvalidHash; decoding the encoding of Client::new(.., S)
\* for the same addresses with S among the candidates returns the original.
C8_ClientDecode ==
    cresult # NoResult =>
        /\ cresult.out.ok <=> ClientMatching # {}
        /\ cresult.out.ok =>
              /\ cresult.hashed \in ClientMatching
              /\ \A i \in ClientMatching : cresult.hashed <= i
              /\ cresult.out.value = [hash |-> ClientWireTag]
        /\ ClientMatching = {} => cresult.out = Err(InvalidHash)
        /\ ( /\ cresult.sent # NoCookie
             /\ cresult.client_ip = cresult.sent.client_ip
             /\ cresult.server_ip = cresult.sent.server_ip
             /\ \E i \in 1..Len(cresult.secrets) :
                    cresult.secrets[i] = cresult.sent.secret )
           => cresult.out = Ok(cresult.sent.cookie)

\* A client cookie recovered under the second of two different candidates.
C8_Witness ==
    /\ cresult # NoResult /\ cresult.sent # NoCookie
    /\ Len(cresult.secrets) = 2
    /\ cresult.secrets[1] # cresult.secrets[2]
    /\ cresult.secrets[2] = cresult.sent.secret
    /\ cresult.hashed = 2
    /\ cresult.out = Ok(cresult.sent.cookie)

====
